---- MODULE Spec2Model ----
(***************************************************************************)
(* A model of json_to_excel.py: marker-delimited record extraction, the    *)
(* recursive flattening of nested JSON values, and the column widths of    *)
(* the resulting table.                                                    *)
(*                                                                         *)
(* Text is a sequence of one-character strings.  Positions are 0-based, as *)
(* in the Python source; s[a:b] is SubSeq(s, a + 1, b).                    *)
(* An optional value (Python's None or a value) is a sequence of length 0  *)
(* or 1.                                                                   *)
(***************************************************************************)
EXTENDS Integers, Sequences, FiniteSets

VARIABLES
    pc,                 \* which function of the program is running
    file_content,       \* extract_multiple_objects: the corpus
    start_pattern,      \* extract_multiple_objects: the start marker passed in
    end_pattern,        \* extract_multiple_objects: the end marker passed in
    current_position,   \* extract_multiple_objects: the scan cursor
    json_objects,       \* extract_multiple_objects: the result list
    diagnostics,        \* what process_error has printed, one entry per error
    start_pos,          \* process_json_item: start of the last record delimited
    end_pos,            \* process_json_item: where its end pattern was found
    json_str,           \* process_json_item: the last record substring
    nested_data,        \* flatten_json: the value to flatten
    parent_key,         \* flatten_json: the key the value hangs under
    flattened_dict,     \* flatten_json: the flattened row it returns
    json_records,       \* convert_to_excel_rows: the records to tabulate
    excel_rows,         \* convert_to_excel_rows: the rows of text it returns
    data_frame,         \* write_excel_file: the DataFrame of the rows, or None
    column_widths       \* format_excel_columns: the widths set, by column index

extract_vars == <<file_content, start_pattern, end_pattern, current_position,
                  json_objects, diagnostics, start_pos, end_pos, json_str>>
flatten_vars == <<nested_data, parent_key, flattened_dict>>

table_vars == <<json_records, excel_rows, data_frame, column_widths>>

vars == <<pc, extract_vars, flatten_vars, table_vars>>

(***************************************************************************)
(* Bounds of the model.                                                    *)
(***************************************************************************)
MaxPieces == 3
MaxNodes == 4
MaxRecords == 2

(***************************************************************************)
(* Program constants.                                                      *)
(***************************************************************************)
INITIAL_POSITION == 0
NOT_FOUND == -1
LEGACY_RESULT_LENGTH == 3
SNIPPET_LENGTH == 50
COLUMN_PADDING == 2

JSON_START_PATTERN == <<"{", "\"", "E", "X", "A", "M", "P", "L", "E", "\"", ":", " ", "\"">>
JSON_END_PATTERN == <<"\"", "E", "X", "A", "M", "P", "L", "E", "\"", "}">>
DICT_SEPARATOR == <<".">>
ARRAY_PREFIX == <<"[">>
ARRAY_SUFFIX == <<"]">>
EMPTY_ARRAY == <<"[", "]">>
TRUNCATION_SEPERATOR == <<".", ".", ".">>
DEFAULT_VALUE == <<>>

None == <<>>
Some(x) == <<x>>

(***************************************************************************)
(* Structural values, as json.loads builds them.  A dict is the sequence   *)
(* of its (key, value) pairs in insertion order, keys unique.              *)
(***************************************************************************)
Null == [t |-> "null"]
Bool(b) == [t |-> "bool", b |-> b]
Num(n) == [t |-> "num", n |-> n]
Str(s) == [t |-> "str", s |-> s]
List(e) == [t |-> "list", e |-> e]
Dict(m) == [t |-> "dict", m |-> m]

\* isinstance(value, dict), isinstance(value, list)
IsDict(v) == v.t = "dict"
IsList(v) == v.t = "list"

\* Python's truth value of a parsed value: `if json_obj:`
Truthy(v) ==
    CASE v.t = "null" -> FALSE
      [] v.t = "bool" -> v.b
      [] v.t = "num"  -> v.n # 0
      [] v.t = "str"  -> Len(v.s) > 0
      [] v.t = "list" -> Len(v.e) > 0
      [] v.t = "dict" -> Len(v.m) > 0

\* d[key] = value on an insertion-ordered dict: an existing key keeps its
\* place and takes the new value, a new key goes last.
DictSet(d, key, value) ==
    IF \E i \in 1..Len(d) : d[i][1] = key
    THEN [i \in 1..Len(d) |-> IF d[i][1] = key THEN <<key, value>> ELSE d[i]]
    ELSE Append(d, <<key, value>>)

DictKeys(d) == [i \in 1..Len(d) |-> d[i][1]]
DictHas(d, key) == \E i \in 1..Len(d) : d[i][1] = key
DictGet(d, key) == d[CHOOSE i \in 1..Len(d) : d[i][1] = key][2]

(***************************************************************************)
(* str.find(sub, start): the lowest index >= start at which sub occurs,    *)
(* -1 when there is none.                                                  *)
(***************************************************************************)
Occurs(s, sub, i) ==
    /\ i >= 0
    /\ i + Len(sub) <= Len(s)
    /\ SubSeq(s, i + 1, i + Len(sub)) = sub

Find(s, sub, start) ==
    LET hits == {i \in start..(Len(s) - Len(sub)) : Occurs(s, sub, i)}
    IN  IF hits = {} THEN NOT_FOUND
        ELSE CHOOSE i \in hits : \A j \in hits : i <= j

(***************************************************************************)
(* json.loads on the subset of JSON the corpora of the model are written   *)
(* in: objects, arrays, strings without escapes, the three literals and    *)
(* non-negative integers, separated by spaces.  The result is              *)
(* [ok, v, next]: whether a value was read at index i (1-based), the       *)
(* value, and the index after it.                                          *)
(***************************************************************************)
WHITESPACE == {" "}
DIGITS == <<"0", "1", "2", "3", "4", "5", "6", "7", "8", "9">>
IsDigit(c) == \E d \in 1..Len(DIGITS) : DIGITS[d] = c
DigitValue(c) == (CHOOSE d \in 1..Len(DIGITS) : DIGITS[d] = c) - 1

ParseFail == [ok |-> FALSE, v |-> Null, next |-> 0]
ParseOk(v, next) == [ok |-> TRUE, v |-> v, next |-> next]

RECURSIVE SkipWs(_, _)
SkipWs(s, i) ==
    IF i <= Len(s) /\ s[i] \in WHITESPACE THEN SkipWs(s, i + 1) ELSE i

\* the index of the quote closing the string whose text starts at i; 0 if none
RECURSIVE ScanString(_, _)
ScanString(s, i) ==
    IF i > Len(s) THEN 0
    ELSE IF s[i] = "\"" THEN i
    ELSE ScanString(s, i + 1)

\* the index after the run of digits that starts at i
RECURSIVE ScanDigits(_, _)
ScanDigits(s, i) ==
    IF i <= Len(s) /\ IsDigit(s[i]) THEN ScanDigits(s, i + 1) ELSE i

RECURSIVE DigitsValue(_, _)
DigitsValue(ds, acc) ==
    IF ds = <<>> THEN acc
    ELSE DigitsValue(Tail(ds), acc * 10 + DigitValue(Head(ds)))

HasPrefix(s, i, word) == Occurs(s, word, i - 1)

RECURSIVE ParseValue(_, _), ParseMembers(_, _, _), ParseElements(_, _, _)

ParseValue(s, i) ==
    IF i > Len(s) THEN ParseFail
    ELSE IF s[i] = "\"" THEN
        LET j == ScanString(s, i + 1)
        IN  IF j = 0 THEN ParseFail
            ELSE ParseOk(Str(SubSeq(s, i + 1, j - 1)), j + 1)
    ELSE IF s[i] = "{" THEN
        LET j == SkipWs(s, i + 1)
        IN  IF j <= Len(s) /\ s[j] = "}" THEN ParseOk(Dict(<<>>), j + 1)
            ELSE ParseMembers(s, j, <<>>)
    ELSE IF s[i] = "[" THEN
        LET j == SkipWs(s, i + 1)
        IN  IF j <= Len(s) /\ s[j] = "]" THEN ParseOk(List(<<>>), j + 1)
            ELSE ParseElements(s, j, <<>>)
    ELSE IF HasPrefix(s, i, <<"n", "u", "l", "l">>) THEN ParseOk(Null, i + 4)
    ELSE IF HasPrefix(s, i, <<"t", "r", "u", "e">>) THEN ParseOk(Bool(TRUE), i + 4)
    ELSE IF HasPrefix(s, i, <<"f", "a", "l", "s", "e">>) THEN ParseOk(Bool(FALSE), i + 5)
    ELSE IF s[i] = "0" THEN ParseOk(Num(0), i + 1)
    ELSE IF IsDigit(s[i]) THEN
        LET j == ScanDigits(s, i)
        IN  ParseOk(Num(DigitsValue(SubSeq(s, i, j - 1), 0)), j)
    ELSE ParseFail

\* the members of an object, i at the quote that must open the next key
ParseMembers(s, i, acc) ==
    IF i > Len(s) \/ s[i] # "\"" THEN ParseFail
    ELSE
        LET j == ScanString(s, i + 1)
        IN  IF j = 0 THEN ParseFail
            ELSE
                LET key == SubSeq(s, i + 1, j - 1)
                    c == SkipWs(s, j + 1)
                IN  IF c > Len(s) \/ s[c] # ":" THEN ParseFail
                    ELSE
                        LET r == ParseValue(s, SkipWs(s, c + 1))
                        IN  IF ~r.ok THEN ParseFail
                            ELSE
                                LET acc2 == DictSet(acc, key, r.v)
                                    d == SkipWs(s, r.next)
                                IN  IF d > Len(s) THEN ParseFail
                                    ELSE IF s[d] = "}" THEN ParseOk(Dict(acc2), d + 1)
                                    ELSE IF s[d] = "," THEN ParseMembers(s, SkipWs(s, d + 1), acc2)
                                    ELSE ParseFail

\* the elements of an array, i at the first character of the next element
ParseElements(s, i, acc) ==
    LET r == ParseValue(s, i)
    IN  IF ~r.ok THEN ParseFail
        ELSE
            LET acc2 == Append(acc, r.v)
                d == SkipWs(s, r.next)
            IN  IF d > Len(s) THEN ParseFail
                ELSE IF s[d] = "]" THEN ParseOk(List(acc2), d + 1)
                ELSE IF s[d] = "," THEN ParseElements(s, SkipWs(s, d + 1), acc2)
                ELSE ParseFail

\* json.loads(s): one value, with nothing but whitespace around it
JsonLoads(s) ==
    LET r == ParseValue(s, SkipWs(s, 1))
    IN  IF r.ok /\ SkipWs(s, r.next) = Len(s) + 1 THEN r ELSE ParseFail

(***************************************************************************)
(* The record extractor.                                                   *)
(***************************************************************************)

\* find_json_positions with the start pattern searched from the beginning of
\* the content instead of from the cursor
find_json_positions_rescan(content, start_pat, position) ==
    LET sp == Find(content, start_pat, INITIAL_POSITION)
    IN  IF sp = NOT_FOUND THEN <<None, None>>
        ELSE
            LET ep == Find(content, JSON_END_PATTERN, sp)
            IN  IF ep = NOT_FOUND THEN <<None, None>>
                ELSE <<Some(sp), Some(ep)>>

\* find_json_positions: None, None when either pattern is not found.  The end
\* of the record is searched with the module's JSON_END_PATTERN.
find_json_positions(content, start_pat, position) ==
    LET sp == Find(content, start_pat, position)
    IN  IF sp = NOT_FOUND THEN <<None, None>>
        ELSE
            LET ep == Find(content, JSON_END_PATTERN, sp)
            IN  IF ep = NOT_FOUND THEN <<None, None>>
                ELSE <<Some(sp), Some(ep)>>

\* extract_json_string: the record substring and the position after it
extract_json_string(content, sp, ep) ==
    LET end_pos_with_pattern == ep + Len(JSON_END_PATTERN)
    IN  <<SubSeq(content, sp + 1, end_pos_with_pattern), end_pos_with_pattern>>

\* create_error_snippet: the first SNIPPET_LENGTH characters, then "..."
create_error_snippet(str) ==
    IF Len(str) > SNIPPET_LENGTH
    THEN SubSeq(str, 1, SNIPPET_LENGTH) \o TRUNCATION_SEPERATOR
    ELSE str

\* parse_json_string: (value, None) or (None, (error_message, snippet)).  The
\* message carries the two offsets; the decoder's own detail text is left out.
parse_json_string(str, sp, ep) ==
    LET r == JsonLoads(str)
    IN  IF r.ok THEN <<Some(r.v), None>>
        ELSE <<None, Some(<<[start_pos |-> sp, end_pos |-> ep],
                            create_error_snippet(str)>>)>>

\* process_json_item: (json_obj, error, stop_loop, new_position)
process_json_item(content, position, start_pat) ==
    LET found == find_json_positions(content, start_pat, position)
    IN  IF found[1] = None THEN <<None, None, TRUE, None>>
        ELSE
            LET cut == extract_json_string(content, found[1][1], found[2][1])
                parsed == parse_json_string(cut[1], found[1][1], found[2][1])
            IN  <<parsed[1], parsed[2], FALSE, Some(cut[2])>>

\* handle_process_result: a result of three fields carries no new position
handle_process_result(result) ==
    IF Len(result) = LEGACY_RESULT_LENGTH
    THEN <<result[1], result[2], result[3], None>>
    ELSE <<result[1], result[2], result[3], result[4]>>

\* `if json_obj:` on the optional parsed value: None and the values Python
\* holds false (null, false, 0, "", [], {}) are not true
ObjectIsTrue(json_obj) == json_obj # None /\ Truthy(json_obj[1])

\* process_error that prints nothing
process_error_silent(printed, error) == printed

\* process_error: prints the message and the snippet when there is an error
process_error(printed, error) ==
    IF error # None THEN Append(printed, error[1]) ELSE printed

\* the locals of process_json_item in the iteration that starts at position
ItemLocals(content, position, start_pat) ==
    LET found == find_json_positions(content, start_pat, position)
    IN  IF found[1] = None
        THEN [start_pos |-> None, end_pos |-> None, json_str |-> None]
        ELSE [start_pos |-> found[1], end_pos |-> found[2],
              json_str |-> Some(extract_json_string(content, found[1][1], found[2][1])[1])]

(***************************************************************************)
(* The flattener.                                                          *)
(***************************************************************************)

\* str(n) of a non-negative integer: its decimal digits
RECURSIVE IntToText(_)
IntToText(n) ==
    IF n < 10 THEN <<DIGITS[n + 1]>>
    ELSE IntToText(n \div 10) \o <<DIGITS[(n % 10) + 1]>>

\* create_array_key that counts the positions from 1
create_array_key_from_one(parent, index) ==
    parent \o ARRAY_PREFIX \o IntToText(index + 1) \o ARRAY_SUFFIX

\* create_array_key
create_array_key(parent, index) ==
    parent \o ARRAY_PREFIX \o IntToText(index) \o ARRAY_SUFFIX

RECURSIVE flatten_dict(_, _, _), flatten_list(_, _, _),
          flatten_dict_items(_, _, _), flatten_list_items(_, _, _, _)

\* process_list_item
process_list_item(item, array_key, flattened) ==
    IF IsDict(item) THEN flatten_dict(item, array_key, flattened)
    ELSE IF IsList(item) THEN flatten_list(item, array_key, flattened)
    ELSE DictSet(flattened, array_key, item)

\* the body of flatten_dict's loop, for the items not yet visited
flatten_dict_items(items, parent, flattened) ==
    IF items = <<>> THEN flattened
    ELSE
        LET key == Head(items)[1]
            value == Head(items)[2]
            new_key == IF parent # <<>> THEN parent \o DICT_SEPARATOR \o key
                       ELSE key
            after == IF IsDict(value) THEN flatten_dict(value, new_key, flattened)
                     ELSE IF IsList(value) THEN flatten_list(value, new_key, flattened)
                     ELSE DictSet(flattened, new_key, value)
        IN  flatten_dict_items(Tail(items), parent, after)

\* flatten_dict
flatten_dict(nested_dict, parent, flattened) ==
    flatten_dict_items(nested_dict.m, parent, flattened)

\* the body of flatten_list's loop, from index on (enumerate counts from 0)
flatten_list_items(items, index, parent, flattened) ==
    IF items = <<>> THEN flattened
    ELSE flatten_list_items(Tail(items), index + 1, parent,
             process_list_item(Head(items), create_array_key(parent, index), flattened))

\* flatten_list, with handle_empty_list: an empty list is the entry "[]"
flatten_list(nested_list, parent, flattened) ==
    IF nested_list.e = <<>> THEN DictSet(flattened, parent, Str(EMPTY_ARRAY))
    ELSE flatten_list_items(nested_list.e, 0, parent, flattened)

\* flatten_json
flatten_json(data, parent) ==
    IF IsDict(data) THEN flatten_dict(data, parent, <<>>)
    ELSE IF IsList(data) THEN flatten_list(data, parent, <<>>)
    ELSE DictSet(<<>>, parent, data)

(***************************************************************************)
(* The values flatten_json is applied to: every value of at most MaxNodes  *)
(* nodes (a primitive, a list or a dict is one node) over a few keys and   *)
(* primitives.                                                             *)
(***************************************************************************)
FlattenKeys == {<<"a">>, <<"b">>, <<"a", ".", "b">>, <<"a", "[", "0", "]">>}
FlattenPrims == {Null, Num(1)}

RECURSIVE ElementSeqs(_, _), MemberSeqs(_, _, _), ValueTable(_)

\* the sequences of values of n nodes in all, table[k] being the values of
\* exactly k nodes
ElementSeqs(table, n) ==
    IF n = 0 THEN {<<>>}
    ELSE UNION {{<<v>> \o rest : v \in table[k], rest \in ElementSeqs(table, n - k)}
                    : k \in 1..n}

\* the sequences of members of n nodes in all, with distinct keys among keys
MemberSeqs(table, n, keys) ==
    IF n = 0 THEN {<<>>}
    ELSE UNION {{<< <<key, v>> >> \o rest :
                    v \in table[k], rest \in MemberSeqs(table, n - k, keys \ {key})}
                    : k \in 1..n, key \in keys}

\* ValueTable(n)[k], for k in 1..n, is the set of the values of exactly k nodes
ValueTable(n) ==
    IF n = 0 THEN <<>>
    ELSE
        LET table == ValueTable(n - 1)
        IN  Append(table,
                (IF n = 1 THEN FlattenPrims ELSE {})
                    \cup {Dict(m) : m \in MemberSeqs(table, n - 1, FlattenKeys)}
                    \cup {List(e) : e \in ElementSeqs(table, n - 1)})

\* the values of fewer than MaxNodes nodes, by number of nodes
SmallValues == ValueTable(MaxNodes - 1)

\* v is a value of exactly n nodes, n <= MaxNodes
IsValueOfSize(v, n) ==
    \/ n = 1 /\ v \in FlattenPrims \cup {Dict(<<>>), List(<<>>)}
    \/ \E k \in 1..(n - 1), key \in FlattenKeys :
           \E first \in SmallValues[k],
              rest \in MemberSeqs(SmallValues, n - 1 - k, FlattenKeys \ {key}) :
                 v = Dict(<< <<key, first>> >> \o rest)
    \/ \E k \in 1..(n - 1) :
           \E first \in SmallValues[k], rest \in ElementSeqs(SmallValues, n - 1 - k) :
                 v = List(<<first>> \o rest)

FlattenIdle ==
    /\ nested_data = Null
    /\ parent_key = DEFAULT_VALUE
    /\ flattened_dict = <<>>

ExtractIdle ==
    /\ file_content = <<>>
    /\ start_pattern = JSON_START_PATTERN
    /\ end_pattern = JSON_END_PATTERN
    /\ current_position = INITIAL_POSITION
    /\ json_objects = <<>>
    /\ diagnostics = <<>>
    /\ start_pos = None
    /\ end_pos = None
    /\ json_str = None

(***************************************************************************)
(* The row assembler and the column planner.                               *)
(***************************************************************************)
TableIdle ==
    /\ json_records = <<>>
    /\ excel_rows = <<>>
    /\ data_frame = None
    /\ column_widths = <<>>

\* stringify_value: "" for None, str(value) otherwise
stringify_value(value) ==
    CASE value.t = "null" -> DEFAULT_VALUE
      [] value.t = "num"  -> IntToText(value.n)
      [] value.t = "str"  -> value.s
      [] value.t = "bool" -> IF value.b THEN <<"T", "r", "u", "e">>
                             ELSE <<"F", "a", "l", "s", "e">>

\* convert_to_excel_rows: each record flattened, each value as text
convert_to_excel_rows(records) ==
    [r \in 1..Len(records) |->
        LET flat_record == flatten_json(records[r], DEFAULT_VALUE)
        IN  [i \in 1..Len(flat_record) |->
                <<flat_record[i][1], stringify_value(flat_record[i][2])>>]]

\* the columns of pd.DataFrame(rows): the keys of the rows, first seen first
RECURSIVE FrameColumns(_, _)
FrameColumns(rows, columns) ==
    IF rows = <<>> THEN columns
    ELSE
        LET keys == DictKeys(Head(rows))
            fresh == SelectSeq(keys, LAMBDA k : \A c \in 1..Len(columns) : columns[c] # k)
        IN  FrameColumns(Tail(rows), columns \o fresh)

\* pd.DataFrame(rows): a cell is the row's text for the column, or None (NaN)
\* where the row has no such key
DataFrame(rows) ==
    LET columns == FrameColumns(rows, <<>>)
    IN  [columns |-> columns,
         cells |-> [r \in 1..Len(rows) |->
                       [c \in 1..Len(columns) |->
                           IF DictHas(rows[r], columns[c])
                           THEN Some(DictGet(rows[r], columns[c]))
                           ELSE None]]]

\* create_dataframe: None for no rows
create_dataframe(rows) ==
    IF rows = <<>> THEN None ELSE Some(DataFrame(rows))

\* .astype(str) on a cell of an object column: NaN becomes the text nan
AsTypeStr(cell) ==
    IF cell = None THEN <<"n", "a", "n">> ELSE cell[1]

Max(a, b) == IF a >= b THEN a ELSE b

SetMax(S) == CHOOSE x \in S : \A y \in S : y <= x

\* calculate_column_width, the column given by its index (1-based)
calculate_column_width(frame, c) ==
    LET max_data_width ==
            SetMax({Len(AsTypeStr(frame.cells[r][c])) : r \in 1..Len(frame.cells)})
    IN  Max(max_data_width, Len(frame.columns[c])) + COLUMN_PADDING

\* the records tabulated: the values of one or two nodes
TableValues == SmallValues[1] \cup SmallValues[2]

RECURSIVE RecordSeqs(_)
RecordSeqs(n) ==
    IF n = 0 THEN {<<>>}
    ELSE RecordSeqs(n - 1)
            \cup {Append(rs, v) : rs \in {x \in RecordSeqs(n - 1) : Len(x) = n - 1},
                                  v \in TableValues}

(***************************************************************************)
(* The corpora: concatenations of at most MaxPieces pieces.                *)
(***************************************************************************)
\* {"EXAMPLE": "EXAMPLE"}
GoodRecord == JSON_START_PATTERN \o <<"E", "X", "A", "M", "P", "L", "E", "\"", "}">>
\* {"EXAMPLE": "x", "x": "EXAMPLE"}
OtherRecord == JSON_START_PATTERN \o <<"x", "\"", ",", " ", "\"", "x", "\"", ":", " ">> \o JSON_END_PATTERN
\* {"EXAMPLE": ""EXAMPLE"}
BadRecord == JSON_START_PATTERN \o JSON_END_PATTERN
\* {"EXAMPLE": "   a start pattern with no end pattern after it
OpenRecord == JSON_START_PATTERN
\* {}
EmptyObject == <<"{", "}">>
\* x
Junk == <<"x">>

Pieces == {GoodRecord, OtherRecord, BadRecord, OpenRecord, EmptyObject, Junk}

RECURSIVE Corpora(_)
Corpora(n) ==
    IF n = 0 THEN {<<>>}
    ELSE Corpora(n - 1) \cup {c \o p : c \in Corpora(n - 1), p \in Pieces}

StartPatterns == {JSON_START_PATTERN, <<"{">>}
EndPatterns == {JSON_END_PATTERN, <<"}">>, <<"]">>}

(***************************************************************************)
(* extract_multiple_objects(file_content, start_pattern, end_pattern).     *)
(* Both patterns are non-empty: extract_json_data calls it only then.      *)
(***************************************************************************)
Init ==
    /\ pc = "scan"
    /\ file_content \in Corpora(MaxPieces)
    /\ start_pattern \in StartPatterns
    /\ end_pattern \in EndPatterns
    /\ current_position = INITIAL_POSITION
    /\ json_objects = <<>>
    /\ diagnostics = <<>>
    /\ start_pos = None
    /\ end_pos = None
    /\ json_str = None
    /\ FlattenIdle
    /\ TableIdle

\* what one turn of the while loop computes
LoopResult == handle_process_result(
                  process_json_item(file_content, current_position, start_pattern))

LoopLocals == ItemLocals(file_content, current_position, start_pattern)

TakeLocals ==
    /\ start_pos' = LoopLocals.start_pos
    /\ end_pos' = LoopLocals.end_pos
    /\ json_str' = LoopLocals.json_str

TakePosition ==
    current_position' = IF LoopResult[4] # None THEN LoopResult[4][1]
                        ELSE current_position

\* a turn of the loop that ends it: stop_loop is set
ExtractStop ==
    /\ pc = "scan"
    /\ LoopResult[3]
    /\ TakePosition
    /\ TakeLocals
    /\ pc' = "done"
    /\ UNCHANGED <<file_content, start_pattern, end_pattern, json_objects,
                   diagnostics>>
    /\ UNCHANGED <<flatten_vars, table_vars>>

\* a turn of the loop whose object is true: it is appended
ExtractAppend ==
    /\ pc = "scan"
    /\ ~LoopResult[3]
    /\ ObjectIsTrue(LoopResult[1])
    /\ TakePosition
    /\ TakeLocals
    /\ json_objects' = Append(json_objects, LoopResult[1][1])
    /\ UNCHANGED <<pc, file_content, start_pattern, end_pattern, diagnostics>>
    /\ UNCHANGED <<flatten_vars, table_vars>>

\* a turn of the loop whose object is not true: process_error(error)
ExtractError ==
    /\ pc = "scan"
    /\ ~LoopResult[3]
    /\ ~ObjectIsTrue(LoopResult[1])
    /\ TakePosition
    /\ TakeLocals
    /\ diagnostics' = process_error(diagnostics, LoopResult[2])
    /\ UNCHANGED <<pc, file_content, start_pattern, end_pattern, json_objects>>
    /\ UNCHANGED <<flatten_vars, table_vars>>

Next == ExtractStop \/ ExtractAppend \/ ExtractError

Spec == Init /\ [][Next]_vars

(***************************************************************************)
(* flatten_json(nested_data), as convert_to_excel_rows calls it.           *)
(***************************************************************************)
FlattenInit ==
    /\ pc = "flatten"
    /\ \E n \in 1..MaxNodes : IsValueOfSize(nested_data, n)
    /\ parent_key = DEFAULT_VALUE
    /\ flattened_dict = <<>>
    /\ ExtractIdle
    /\ TableIdle

FlattenJson ==
    /\ pc = "flatten"
    /\ flattened_dict' = flatten_json(nested_data, parent_key)
    /\ pc' = "flattened"
    /\ UNCHANGED <<nested_data, parent_key>>
    /\ UNCHANGED <<extract_vars, table_vars>>

FlattenNext == FlattenJson

FlattenSpec == FlattenInit /\ [][FlattenNext]_vars

(***************************************************************************)
(* The tail of extract_json_data: convert_to_excel_rows(json_records) and  *)
(* write_excel_file(excel_rows, output_path).                              *)
(***************************************************************************)
TableInit ==
    /\ pc = "convert"
    /\ json_records \in RecordSeqs(MaxRecords)
    /\ excel_rows = <<>>
    /\ data_frame = None
    /\ column_widths = <<>>
    /\ ExtractIdle
    /\ FlattenIdle

ConvertToExcelRows ==
    /\ pc = "convert"
    /\ excel_rows' = convert_to_excel_rows(json_records)
    /\ pc' = "write"
    /\ UNCHANGED <<json_records, data_frame, column_widths>>
    /\ UNCHANGED <<extract_vars, flatten_vars>>

\* write_excel_file: no rows, no file
CreateDataframe ==
    /\ pc = "write"
    /\ data_frame' = create_dataframe(excel_rows)
    /\ pc' = IF data_frame' = None THEN "nodata" ELSE "format"
    /\ UNCHANGED <<json_records, excel_rows, column_widths>>
    /\ UNCHANGED <<extract_vars, flatten_vars>>

\* one turn of format_excel_columns' loop: the width of the next column
SetColumn ==
    /\ pc = "format"
    /\ Len(column_widths) < Len(data_frame[1].columns)
    /\ column_widths' = Append(column_widths,
           calculate_column_width(data_frame[1], Len(column_widths) + 1))
    /\ UNCHANGED <<pc, json_records, excel_rows, data_frame>>
    /\ UNCHANGED <<extract_vars, flatten_vars>>

\* the loop is over: setup_excel_writer closes the file and returns
FinishWriting ==
    /\ pc = "format"
    /\ Len(column_widths) = Len(data_frame[1].columns)
    /\ pc' = "written"
    /\ UNCHANGED table_vars
    /\ UNCHANGED <<extract_vars, flatten_vars>>

TableNext == ConvertToExcelRows \/ CreateDataframe \/ SetColumn \/ FinishWriting

TableSpec == TableInit /\ [][TableNext]_vars

(***************************************************************************)
(* What the claims call a marker-delimited record: the substring from an   *)
(* occurrence of the start marker through the end of the next occurrence,  *)
(* at or after it, of the end marker.  RecordsFrom is the sequence of      *)
(* records a corpus is the concatenation of, from offset pos on, under the *)
(* markers s and e; NotRecords when it is no such concatenation.           *)
(***************************************************************************)
NotRecords == <<None>>

RECURSIVE RecordsFrom(_, _, _, _)
RecordsFrom(c, s, e, pos) ==
    IF pos = Len(c) THEN <<>>
    ELSE IF ~Occurs(c, s, pos) THEN NotRecords
    ELSE
        LET ep == Find(c, e, pos)
        IN  IF ep = NOT_FOUND THEN NotRecords
            ELSE
                LET rest == RecordsFrom(c, s, e, ep + Len(e))
                IN  IF rest = NotRecords THEN NotRecords
                    ELSE <<SubSeq(c, pos + 1, ep + Len(e))>> \o rest

CorpusRecords == RecordsFrom(file_content, start_pattern, end_pattern, 0)
IsRecordCorpus == CorpusRecords # NotRecords
WellFormed(rec) == JsonLoads(rec).ok
ValueOf(rec) == JsonLoads(rec).v

\* C1: when the corpus is the concatenation of K records that are well formed
\* under the markers passed in, the scan returns exactly the K parsed records,
\* in corpus order.
C1_ReturnsEveryRecord ==
    (/\ pc = "done"
     /\ IsRecordCorpus
     /\ \A i \in 1..Len(CorpusRecords) : WellFormed(CorpusRecords[i]))
    => json_objects = [i \in 1..Len(CorpusRecords) |-> ValueOf(CorpusRecords[i])]

\* C2: when the corpus is a well-formed record, a malformed record and a
\* well-formed record, under the markers passed in, the scan returns the two
\* well-formed values in order and prints exactly one diagnostic.
C2_SkipsMalformedRecord ==
    (/\ pc = "done"
     /\ IsRecordCorpus
     /\ Len(CorpusRecords) = 3
     /\ WellFormed(CorpusRecords[1])
     /\ ~WellFormed(CorpusRecords[2])
     /\ WellFormed(CorpusRecords[3]))
    => /\ json_objects = <<ValueOf(CorpusRecords[1]), ValueOf(CorpusRecords[3])>>
       /\ Len(diagnostics) = 1

\* C3: a turn of the loop that finds the start marker at or after the cursor
\* and no occurrence of the end marker passed in at or after it ends the scan,
\* adding no record and no diagnostic.
C3_UnmatchedStartStops ==
    [][(/\ pc = "scan"
        /\ Find(file_content, start_pattern, current_position) # NOT_FOUND
        /\ Find(file_content, end_pattern,
                Find(file_content, start_pattern, current_position)) = NOT_FOUND)
       => (/\ pc' = "done"
           /\ json_objects' = json_objects
           /\ diagnostics' = diagnostics)]_vars

\* C4: every record substring the scan delimits runs from the start position
\* found through the end of the next occurrence of the end marker passed in.
C4_RecordEndsAtSuppliedMarker ==
    json_str # None =>
        LET ep == Find(file_content, end_pattern, start_pos[1])
        IN  /\ ep # NOT_FOUND
            /\ json_str[1] = SubSeq(file_content, start_pos[1] + 1, ep + Len(end_pattern))

\* C5: every turn of the loop that delimits a substring has exactly one
\* outcome: a substring that parses adds its value to the result and no
\* diagnostic, one that does not adds one diagnostic and no result; so each
\* such turn adds one to results plus diagnostics.
C5_OneOutcomePerRecord ==
    [][(pc = "scan" /\ pc' = "scan") =>
        /\ json_str' # None
        /\ WellFormed(json_str'[1]) =>
              /\ json_objects' = Append(json_objects, ValueOf(json_str'[1]))
              /\ diagnostics' = diagnostics
        /\ ~WellFormed(json_str'[1]) =>
              /\ json_objects' = json_objects
              /\ Len(diagnostics') = Len(diagnostics) + 1
        /\ Len(json_objects') + Len(diagnostics')
              = Len(json_objects) + Len(diagnostics) + 1]_vars

\* C5 witness: a finished scan that appended a value and printed a diagnostic
C5_Witness ==
    pc = "done" /\ Len(json_objects) >= 1 /\ Len(diagnostics) >= 1

\* C10: every turn of the loop that does not end it delimits a record that
\* starts at or after the old cursor and sets the cursor to the record's end,
\* past the old cursor and within the corpus; the turn that ends the loop
\* leaves the cursor alone.  The cursor is a variant bounded by the length of
\* the corpus, so the loop ends, and the records delimited do not overlap.
C10_CursorAdvances ==
    [][/\ (pc = "scan" /\ pc' = "scan") =>
             /\ start_pos'[1] >= current_position
             /\ current_position' = start_pos'[1] + Len(json_str'[1])
             /\ current_position' > current_position
             /\ current_position' <= Len(file_content)
       /\ pc' = "done" => current_position' = current_position]_vars

\* C10 witness: a scan that has delimited three records one after the other
C10_Witness ==
    pc = "scan" /\ Len(json_objects) + Len(diagnostics) = 3
                /\ current_position = Len(file_content)

(***************************************************************************)
(* The leaves of a value, as the claims speak of them: the primitives and  *)
(* the empty lists, each with its path from the root, in depth-first,      *)
(* left-to-right order.  A path is a sequence of steps <<"key", k>> and    *)
(* <<"index", i>>.                                                         *)
(***************************************************************************)
RECURSIVE Leaves(_, _), MemberLeaves(_, _), ElementLeaves(_, _, _)

Leaves(v, path) ==
    IF IsDict(v) THEN MemberLeaves(v.m, path)
    ELSE IF IsList(v) THEN
        IF v.e = <<>> THEN << <<path, Str(EMPTY_ARRAY)>> >>
        ELSE ElementLeaves(v.e, 0, path)
    ELSE << <<path, v>> >>

MemberLeaves(members, path) ==
    IF members = <<>> THEN <<>>
    ELSE Leaves(Head(members)[2], Append(path, <<"key", Head(members)[1]>>))
             \o MemberLeaves(Tail(members), path)

ElementLeaves(elements, i, path) ==
    IF elements = <<>> THEN <<>>
    ELSE Leaves(Head(elements), Append(path, <<"index", i>>))
             \o ElementLeaves(Tail(elements), i + 1, path)

\* the key a path spells, starting from the key acc
RECURSIVE PathKey(_, _)
PathKey(path, acc) ==
    IF path = <<>> THEN acc
    ELSE
        LET step == Head(path)
        IN  PathKey(Tail(path),
                IF step[1] = "key"
                THEN (IF acc = <<>> THEN step[2] ELSE acc \o <<".">> \o step[2])
                ELSE acc \o <<"[">> \o IntToText(step[2]) \o <<"]">>)

\* the row that results from assigning each leaf, in order, to its path's key
RECURSIVE AssignLeaves(_, _, _)
AssignLeaves(leaves, root, row) ==
    IF leaves = <<>> THEN row
    ELSE AssignLeaves(Tail(leaves), root,
             DictSet(row, PathKey(Head(leaves)[1], root), Head(leaves)[2]))

\* C6: flatten_json returns a row with at least one entry.
C6_FlattenIsTotal ==
    pc = "flattened" => Len(flattened_dict) >= 1

\* C7: no two leaves share a key: the row has as many entries as the value
\* has leaves.
C7_NoKeyCollision ==
    pc = "flattened" => Len(flattened_dict) = Len(Leaves(nested_data, <<>>))

\* C9: the row flatten_json returns is the one obtained by assigning each
\* leaf, in depth-first left-to-right order, to the key its path spells; an
\* empty list is the leaf "[]" under the key of its own path.
C9_KeysFollowPaths ==
    pc = "flattened" =>
        flattened_dict = AssignLeaves(Leaves(nested_data, <<>>), parent_key, <<>>)

\* C9 witness: the value {"a": {"b": [1]}} has been flattened to the single
\* entry a.b[0] -> 1
C9_Witness ==
    /\ pc = "flattened"
    /\ nested_data = Dict(<< <<<<"a">>, Dict(<< <<<<"b">>, List(<<Num(1)>>)>> >>)>> >>)
    /\ flattened_dict = << <<<<"a", ".", "b", "[", "0", "]">>, Num(1)>> >>

\* the text a row holds for a column, the default "" when it lacks the column
RowText(row, column) ==
    IF DictHas(row, column) THEN DictGet(row, column) ELSE DEFAULT_VALUE

\* C8: the width set for each column is the longer of the column's name and
\* the longest text any row holds for it, a row that lacks the column counting
\* as the default "", plus the padding 2.
C8_WidthIsLongestTextPlusPadding ==
    \A c \in 1..Len(column_widths) :
        column_widths[c] =
            Max(Len(data_frame[1].columns[c]),
                SetMax({Len(RowText(excel_rows[r], data_frame[1].columns[c]))
                           : r \in 1..Len(excel_rows)})) + 2

====
